---------------------------- MODULE Spec2Model ----------------------------
(***************************************************************************)
(* A model of the HackerOne hacktivity aggregator:                         *)
(*   tools/hackerone_top/api_client.py      (single-month run)             *)
(*   tools/hackerone_top/aggregate_last6.py (multi-month run)              *)
(*                                                                         *)
(* Amounts are whole dollars (Python floats holding integers are exact),   *)
(* instants are day numbers on a 31-days-per-month grid, which keeps the   *)
(* order of all valid calendar dates.                                      *)
(***************************************************************************)
EXTENDS Integers, Sequences, FiniteSets, TLC

VARIABLES
    prog,         \* entry point that runs: "api_client" | "aggregate_last6"
    month_arg,    \* --month / --end-month as typed: a sequence of characters
    n_months,     \* --months of aggregate_last6
    max_pages,    \* --max-pages
    remote,       \* the remote's chain of pages (page 1 answers a request without cursor)
    filter_mode,  \* what the remote does with the server-side filter
    status,       \* the remote's answer per filter-parameter spelling, and unfiltered
    pc,           \* position of the run
    months_list,  \* aggregate_last6: month_iter's result
    month_idx,    \* aggregate_last6: index of the month being fetched
    month,        \* month token of the fetch in progress
    page_index,   \* pages processed by the fetch in progress (the loop counter)
    next_url,     \* local of the fetch in progress
    cursor,       \* local of the fetch in progress
    data,         \* the response the fetch in progress processed last
    primary_n,    \* number of items the month's primary fetch returned, -1 before
    items,        \* items of the fetch in progress / the list handed to aggregation
    all_rows,     \* aggregate_last6: rows collected over the months
    requests,     \* every HTTP request issued so far, in order
    agg,          \* the aggregation table, a sequence of rows
    outcome,      \* "running" | "ok" | the exception that ended the run
    call,         \* a function called on its own: its name and arguments
    ret           \* what that call returned

vars == << prog, month_arg, n_months, max_pages, remote, filter_mode, status, pc,
           months_list, month_idx, month, page_index, next_url, cursor, data,
           primary_n, items, all_rows, requests, agg, outcome, call, ret >>

-----------------------------------------------------------------------------
(* JSON values as the code meets them.  k is the kind of the value:        *)
(*   "null"   JSON null, and what dict.get gives for a missing key         *)
(*   "num"    a number n                                                   *)
(*   "numstr" a string spelling the number n, e.g. "50"                    *)
(*   "str"    any other string s (s = "" is the empty string)              *)

Null == [k |-> "null", n |-> 0, s |-> ""]

Num(x) == [k |-> "num", n |-> x, s |-> ""]

NumStr(x) == [k |-> "numstr", n |-> x, s |-> ""]

Str(x) == [k |-> "str", n |-> 0, s |-> x]

\* Python truthiness of a JSON value
Truthy(v) ==
    \/ v.k = "num" /\ v.n # 0
    \/ v.k = "numstr"
    \/ v.k = "str" /\ v.s # ""

\* Python's `a or b`
PyOr(a, b) == IF Truthy(a) THEN a ELSE b

-----------------------------------------------------------------------------
(* Calendar.                                                               *)

Instant(y, m, d) == (y * 12 + (m - 1)) * 31 + (d - 1)

\* a timezone-aware datetime / a naive one
Aware(y, m, d) == [t |-> Instant(y, m, d), aware |-> TRUE]

Naive(y, m, d) == [t |-> Instant(y, m, d), aware |-> FALSE]

-----------------------------------------------------------------------------
(* Aggregation: aggregate_by_program and the inline aggregation of         *)
(* aggregate_last6.main.  pandas: groupby sorts the group keys ascending,  *)
(* "sum" adds the amounts, "count" counts the non-null report ids, and     *)
(* sort_values on two columns is a stable lexicographic sort.              *)

Programs == {"Unknown Program", "X", "Y"}

\* Python's string order on the program names in use
NameRank(p) ==
    CASE p = "Unknown Program" -> 1
      [] p = "X" -> 2
      [] p = "Y" -> 3
      [] OTHER -> 4

\* a sum that keeps the first amount only
SumAmounts_First(rows) == IF rows = << >> THEN 0 ELSE Head(rows).bounty_usd

RECURSIVE SumAmounts(_)
SumAmounts(rows) ==
    IF rows = << >> THEN 0
    ELSE Head(rows).bounty_usd + SumAmounts(Tail(rows))

\* DataFrame.groupby(...).agg(...).reset_index(): one row per key, keys ascending
RECURSIVE GroupRowsFrom(_, _)
GroupRowsFrom(rows, rank) ==
    IF rank > 4 THEN << >>
    ELSE LET grp == SelectSeq(rows, LAMBDA r : NameRank(r.program) = rank)
             counted == SelectSeq(grp, LAMBDA r : r.report_id.k # "null")
         IN  (IF grp = << >> THEN << >>
              ELSE << [program |-> grp[1].program,
                       total_bounty_usd |-> SumAmounts(grp),
                       report_count |-> Len(counted)] >>)
             \o GroupRowsFrom(rows, rank + 1)

GroupByProgram(rows) == GroupRowsFrom(rows, 1)

\* a sort on the first column only
SortsBefore_TotalOnly(a, b) == a.total_bounty_usd > b.total_bounty_usd

\* row a goes before row b under ascending=[False, False]
SortsBefore(a, b) ==
    \/ a.total_bounty_usd > b.total_bounty_usd
    \/ a.total_bounty_usd = b.total_bounty_usd /\ a.report_count > b.report_count

\* stable insertion: r goes after every row it does not sort before
RECURSIVE InsertRow(_, _)
InsertRow(sorted, r) ==
    IF sorted = << >> THEN << r >>
    ELSE IF SortsBefore(r, Head(sorted)) THEN << r >> \o sorted
    ELSE << Head(sorted) >> \o InsertRow(Tail(sorted), r)

RECURSIVE SortValues(_)
SortValues(table) ==
    IF table = << >> THEN << >>
    ELSE InsertRow(SortValues(SubSeq(table, 1, Len(table) - 1)), table[Len(table)])

\* the rows aggregate_by_program builds from the items (lines 291-300)
ProgramRow(it) ==
    [program |-> it.program, bounty_usd |-> it.total_awarded_amount, report_id |-> it.id]

RECURSIVE MapRows(_)
MapRows(its) ==
    IF its = << >> THEN << >> ELSE << ProgramRow(Head(its)) >> \o MapRows(Tail(its))

PositiveItems(its) == SelectSeq(its, LAMBDA it : it.total_awarded_amount > 0)

aggregate_by_program(its) ==
    IF its = << >> THEN << >>
    ELSE LET rows == MapRows(PositiveItems(its))
         IN  IF rows = << >> THEN << >>
             ELSE SortValues(GroupByProgram(rows))

\* aggregate_last6.main, lines 47-66: every item becomes a row
Last6Rows(its) == MapRows(its)

aggregate_last6(rows) ==
    IF rows = << >> THEN << >>
    ELSE SortValues(GroupByProgram(rows))

-----------------------------------------------------------------------------
(* Raw nodes of a page payload and their resolution into HacktivityItems.  *)
(*                                                                         *)
(* A node is [id, attributes, relationships].                              *)
(*   id            a JSON value, or Absent (no "id" key)                   *)
(*   attributes    [k, total_awarded_amount, total_awarded_amount_in_usd,  *)
(*                  awarded_amount, bounty_amount,                         *)
(*                  latest_disclosable_activity_at, disclosed_at]          *)
(*                 k = "obj" | "null" | "absent"                           *)
(*   relationships [k, program, team, award], k as above, each entry a     *)
(*                 relationship [k, id, name, handle]                      *)
(* A timestamp attribute is [k, dt]: "iso" text that fromisoformat reads   *)
(* as dt, "text" that it rejects, "empty" (""), or "null".                 *)

Absent == [k |-> "absent", n |-> 0, s |-> ""]

\* dict.get(key): None for a missing key
Get(v) == IF v.k = "absent" THEN Null ELSE v

\* dict.get(key, default)
GetDefault(v, d) == IF v.k = "absent" THEN d ELSE v

NoDate == [t |-> 0, aware |-> TRUE]

TsNull == [k |-> "null", dt |-> NoDate]

TsEmpty == [k |-> "empty", dt |-> NoDate]

TsText == [k |-> "text", dt |-> NoDate]

TsIso(d) == [k |-> "iso", dt |-> d]

TsTruthy(ts) == ts.k \in {"iso", "text"}

(* Relationship entries, by shape:                                         *)
(*   "absent"  no such key            "null"    the entry is null          *)
(*   "nodata"  {"data": null}         "list"    {"data": [ ... ]}          *)
(*   "pointer" {"data": {"type", "id"}}                                    *)
(*   "inline"  {"data": {"id", "attributes": {"name", "handle"}}}          *)
RelAbsent == [k |-> "absent", id |-> "", name |-> Null, handle |-> Null]

RelNull == [k |-> "null", id |-> "", name |-> Null, handle |-> Null]

RelNoData == [k |-> "nodata", id |-> "", name |-> Null, handle |-> Null]

RelList == [k |-> "list", id |-> "", name |-> Null, handle |-> Null]

RelPointer(i) == [k |-> "pointer", id |-> i, name |-> Null, handle |-> Null]

RelInline(i, nm, h) == [k |-> "inline", id |-> i, name |-> nm, handle |-> h]

\* an included resource: [id, name, handle, amount_in_usd, amount]
NoInc == [id |-> "", found |-> FALSE, name |-> Null, handle |-> Null,
          amount_in_usd |-> Null, amount |-> Null]

IncProgram(i, nm, h) == [id |-> i, found |-> TRUE, name |-> nm, handle |-> h,
                         amount_in_usd |-> Null, amount |-> Null]

IncAward(i, usd, amt) == [id |-> i, found |-> TRUE, name |-> Null, handle |-> Null,
                          amount_in_usd |-> usd, amount |-> amt]

\* included_by_id.get(id): a later resource of the same id replaces an earlier one
RECURSIVE included_by_id(_, _)
included_by_id(included, i) ==
    IF included = << >> THEN NoInc
    ELSE IF included[Len(included)].id = i THEN included[Len(included)]
    ELSE included_by_id(SubSeq(included, 1, Len(included) - 1), i)

\* results of resolving one node
Item(i, p, a, d) == [r |-> "item", exc |-> "",
                     item |-> [id |-> i, program |-> p,
                               total_awarded_amount |-> a, disclosed_at |-> d]]

NoItem == [id |-> Null, program |-> "", total_awarded_amount |-> 0, disclosed_at |-> NoDate]

Skip == [r |-> "skip", exc |-> "", item |-> NoItem]

Raise(e) == [r |-> "raise", exc |-> e, item |-> NoItem]

\* the exceptions a node can raise while it is resolved or filtered
AttributeError == "AttributeError: 'NoneType' object has no attribute 'get'"

FloatError == "ValueError: could not convert string to float"

IsoformatError == "ValueError: Invalid isoformat string"

CompareError == "TypeError: can't compare offset-naive and offset-aware datetimes"

\* the exception of strptime and of int()
MonthError == "ValueError: time data does not match format '%Y-%m'"

\* float(x or 0.0) succeeds
FloatOk(v) == ~Truthy(v) \/ v.k \in {"num", "numstr"}

\* float(x or 0.0)
Float(v) == IF Truthy(v) THEN v.n ELSE 0

\* program or "Unknown Program"
ProgramName(v) == IF Truthy(v) /\ v.k = "str" THEN v.s ELSE "Unknown Program"

\* attrs.get(a) or attrs.get(b) or attrs.get(c) or attrs.get(d)
InlineAmount(attrs) ==
    PyOr(PyOr(PyOr(Get(attrs.total_awarded_amount),
                   Get(attrs.total_awarded_amount_in_usd)),
              Get(attrs.awarded_amount)),
         Get(attrs.bounty_amount))

\* a lookup that asks the included index before the inline attributes
PrimaryProgram_IncludedFirst(rels, included) ==
    LET rel == rels.program
        inline == IF rel.k \in {"pointer", "inline"}
                  THEN PyOr(Get(rel.name), Get(rel.handle)) ELSE Null
        inc == included_by_id(included, rel.id)
    IN  IF rel.k \in {"pointer", "inline"} /\ inc.found
           /\ Truthy(PyOr(Get(inc.name), Get(inc.handle)))
        THEN PyOr(Get(inc.name), Get(inc.handle))
        ELSE inline

\* fetch_hacktivity, lines 145-156: the program name, before the sentinel
PrimaryProgram(rels, included) ==
    LET rel == rels.program
        inline == IF rel.k \in {"pointer", "inline"}
                  THEN PyOr(Get(rel.name), Get(rel.handle)) ELSE Null
        inc == included_by_id(included, rel.id)
    IN  IF Truthy(inline) THEN inline
        ELSE IF rel.k \in {"pointer", "inline"} /\ inc.found
             THEN PyOr(Get(inc.name), Get(inc.handle))
             ELSE inline

\* an amount lookup that asks the award resource before the node's attributes
PrimaryAmount_AwardFirst(attrs, rels, included) ==
    LET inline == InlineAmount(attrs)
        inc == included_by_id(included, rels.award.id)
        award == PyOr(Get(inc.amount_in_usd), Get(inc.amount))
    IN  IF rels.award.k \in {"pointer", "inline"} /\ inc.found /\ Truthy(award)
        THEN award ELSE inline

\* fetch_hacktivity, lines 159-175: the amount, before float()
PrimaryAmount(attrs, rels, included) ==
    LET inline == InlineAmount(attrs)
        inc == included_by_id(included, rels.award.id)
    IN  IF Truthy(inline) THEN inline
        ELSE IF rels.award.k \in {"pointer", "inline"} /\ inc.found
             THEN PyOr(Get(inc.amount_in_usd), Get(inc.amount))
             ELSE inline

\* fetch_hacktivity, lines 142-190: one pass of the loop body over a node
ResolvePrimary(node, included) ==
    LET attrs == node.attributes
        rels == node.relationships
        total == PrimaryAmount(attrs, rels, included)
        lda == attrs.latest_disclosable_activity_at
    IN  IF rels.k = "null" \/ rels.program.k \in {"null", "list"}
            THEN Raise(AttributeError)
        ELSE IF attrs.k = "null" THEN Raise(AttributeError)
        ELSE IF ~Truthy(InlineAmount(attrs)) /\ rels.award.k \in {"null", "list"}
            THEN Raise(AttributeError)
        ELSE IF ~FloatOk(total) THEN Raise(FloatError)
        ELSE IF ~TsTruthy(lda) THEN Skip
        ELSE IF lda.k # "iso" THEN Raise(IsoformatError)
        ELSE Item(GetDefault(node.id, Str("")),
                  ProgramName(PrimaryProgram(rels, included)),
                  Float(total), lda.dt)

\* fetch_hacktivity_unfiltered, lines 239-244
FallbackProgram(rels, included) ==
    LET inc == included_by_id(included, rels.team.id)
    IN  IF rels.team.k \in {"pointer", "inline"} /\ inc.found
        THEN Get(inc.name) ELSE Null

\* fetch_hacktivity_unfiltered, lines 246-252
FallbackAmount(attrs) == PyOr(InlineAmount(attrs), Num(0))

\* fetch_hacktivity_unfiltered, lines 236-264: one pass of the loop body
ResolveFallback(node, included) ==
    LET attrs == node.attributes
        rels == node.relationships
        total == FallbackAmount(attrs)
        disclosed_at == attrs.disclosed_at
    IN  IF rels.k = "null" \/ rels.team.k \in {"null", "list"}
            THEN Raise(AttributeError)
        ELSE IF attrs.k = "null" THEN Raise(AttributeError)
        ELSE IF ~TsTruthy(disclosed_at) THEN Skip
        ELSE IF disclosed_at.k # "iso" THEN Raise(IsoformatError)
        ELSE IF ~FloatOk(total) THEN Raise(FloatError)
        ELSE Item(GetDefault(node.id, Str("")),
                  ProgramName(FallbackProgram(rels, included)),
                  Float(total), disclosed_at.dt)

\* the `for node in data.get("data", [])` loop: the items of the page in order,
\* or the first exception a node raises
RECURSIVE ResolvePage(_, _, _)
ResolvePage(nodes, included, primary) ==
    IF nodes = << >> THEN [exc |-> "", items |-> << >>]
    ELSE LET r == IF primary THEN ResolvePrimary(Head(nodes), included)
                  ELSE ResolveFallback(Head(nodes), included)
             rest == ResolvePage(Tail(nodes), included, primary)
         IN  IF r.r = "raise" THEN [exc |-> r.exc, items |-> << >>]
             ELSE IF rest.exc # "" THEN rest
             ELSE IF r.r = "skip" THEN rest
             ELSE [exc |-> "", items |-> << r.item >> \o rest.items]

-----------------------------------------------------------------------------
(* Month tokens.  A token is the sequence of its characters.               *)

DigitChars == << "0", "1", "2", "3", "4", "5", "6", "7", "8", "9" >>

IsDigit(c) == \E i \in 1..10 : DigitChars[i] = c

DigitVal(c) == (CHOOSE i \in 1..10 : DigitChars[i] = c) - 1

AllDigits(cs) == cs # << >> /\ \A i \in 1..Len(cs) : IsDigit(cs[i])

\* int(text) for a text of decimal digits
RECURSIVE IntOf(_)
IntOf(cs) ==
    IF cs = << >> THEN 0
    ELSE 10 * IntOf(SubSeq(cs, 1, Len(cs) - 1)) + DigitVal(cs[Len(cs)])

\* f"{v:0{width}d}" for v >= 0
RECURSIVE Digits(_)
Digits(v) ==
    IF v < 10 THEN << DigitChars[v + 1] >>
    ELSE Digits(v \div 10) \o << DigitChars[(v % 10) + 1] >>

RECURSIVE ZeroPad(_, _)
ZeroPad(cs, width) == IF Len(cs) >= width THEN cs ELSE ZeroPad(<< "0" >> \o cs, width)

\* f"{yy:04d}-{mm:02d}"
FormatMonth(yy, mm) == ZeroPad(Digits(yy), 4) \o << "-" >> \o ZeroPad(Digits(mm), 2)

\* text.split("-")
RECURSIVE Split(_)
Split(cs) ==
    IF \A i \in 1..Len(cs) : cs[i] # "-" THEN << cs >>
    ELSE LET i == CHOOSE j \in 1..Len(cs) :
                      cs[j] = "-" /\ \A h \in 1..(j - 1) : cs[h] # "-"
         IN  << SubSeq(cs, 1, i - 1) >> \o Split(SubSeq(cs, i + 1, Len(cs)))

\* datetime.strptime(month, "%Y-%m") accepts the token: four digits of a year
\* >= 1, a dash, and a month 1[0-2] | 0[1-9] | [1-9], nothing left over
StrptimeOk(tok) ==
    /\ Len(tok) \in {6, 7}
    /\ AllDigits(SubSeq(tok, 1, 4))
    /\ IntOf(SubSeq(tok, 1, 4)) >= 1
    /\ tok[5] = "-"
    /\ AllDigits(SubSeq(tok, 6, Len(tok)))
    /\ IntOf(SubSeq(tok, 6, Len(tok))) \in 1..12

\* datetime.MAXYEAR: datetime(year, ...) raises ValueError beyond it
MAXYEAR == 9999

\* a parse_month that keeps the year when December rolls over
parse_month_NoRoll(tok) ==
    IF ~StrptimeOk(tok) THEN [ok |-> FALSE, start |-> 0, end |-> 0]
    ELSE LET y == IntOf(SubSeq(tok, 1, 4))
             m == IntOf(SubSeq(tok, 6, Len(tok)))
             next_month == IF m = 12 THEN 1 ELSE m + 1
         IN  [ok |-> TRUE, start |-> Instant(y, m, 1), end |-> Instant(y, next_month, 1)]

\* parse_month: (start, end) as instants, or the ValueError of strptime or of
\* datetime(year, next_month, 1) for a year past MAXYEAR
parse_month(tok) ==
    IF ~StrptimeOk(tok) THEN [ok |-> FALSE, start |-> 0, end |-> 0]
    ELSE LET y == IntOf(SubSeq(tok, 1, 4))
             m == IntOf(SubSeq(tok, 6, Len(tok)))
             year == y + (IF m = 12 THEN 1 ELSE 0)
             next_month == IF m = 12 THEN 1 ELSE m + 1
         IN  IF year > MAXYEAR THEN [ok |-> FALSE, start |-> 0, end |-> 0]
             ELSE [ok |-> TRUE, start |-> Instant(y, m, 1),
                   end |-> Instant(year, next_month, 1)]

\* month_iter: `y, m = map(int, end_month.split("-"))` succeeds
MonthIterOk(tok) ==
    /\ Len(Split(tok)) = 2
    /\ AllDigits(Split(tok)[1])
    /\ AllDigits(Split(tok)[2])

\* the i-th month back from (y, m): the `while mm <= 0` loop
RECURSIVE Wrap(_, _)
Wrap(yy, mm) == IF mm <= 0 THEN Wrap(yy - 1, mm + 12) ELSE << yy, mm >>

MonthBack(y, m, i) == FormatMonth(Wrap(y, m - i)[1], Wrap(y, m - i)[2])

\* a month_iter that does not reverse its list
month_iter_NotReversed(tok, n) ==
    LET y == IntOf(Split(tok)[1])
        m == IntOf(Split(tok)[2])
    IN  [j \in 1..n |-> MonthBack(y, m, j - 1)]

\* month_iter(end_month, n), for a token MonthIterOk accepts
month_iter(tok, n) ==
    LET y == IntOf(Split(tok)[1])
        m == IntOf(Split(tok)[2])
    IN  [j \in 1..n |-> MonthBack(y, m, n - j)]

-----------------------------------------------------------------------------
(* The remote endpoint: a chain of pages reached through cursors, an       *)
(* unreliable server-side filter, and a status per kind of request.        *)

\* bounds of the model
MaxChain == 2

MaxPagesOpt == 2

MaxMonths == 2

MaxItems == 3

Attrs(amount, lda, disclosed_at) ==
    [k |-> "obj", total_awarded_amount |-> amount,
     total_awarded_amount_in_usd |-> Absent, awarded_amount |-> Absent,
     bounty_amount |-> Absent,
     latest_disclosable_activity_at |-> lda, disclosed_at |-> disclosed_at]

\* the program inline under relationships.program, the team as a pointer
Rels(name) ==
    [k |-> "obj", program |-> RelInline("p", Str(name), Null),
     team |-> RelPointer(name), award |-> RelAbsent]

Node(id, name, amount, ts) ==
    [id |-> id, attributes |-> Attrs(amount, ts, ts), relationships |-> Rels(name)]

\* the "included" list every page of the model carries
Included == << IncProgram("X", Str("X"), Null), IncProgram("Y", Str("Y"), Null) >>

NodeA == Node(Str("a"), "X", Num(100), TsIso(Aware(2025, 8, 5)))

NodeB == Node(Str("b"), "X", Num(50), TsIso(Aware(2025, 8, 20)))

NodeZero == Node(Str("z"), "Y", Num(0), TsIso(Aware(2025, 8, 10)))

NodeOld == Node(Str("o"), "Y", Num(100), TsIso(Aware(2025, 7, 20)))

NodeBadTs == Node(Str("m"), "X", Num(100), TsText)

NodeNullId == Node(Null, "Y", Num(100), TsIso(Aware(2025, 8, 12)))

NodeNaive == Node(Str("n"), "X", Num(50), TsIso(Naive(2025, 8, 5)))

\* the "data" lists the remote's pages are drawn from
PageCatalog ==
    { << >>,
      << NodeA >>,
      << NodeB >>,
      << NodeZero >>,
      << NodeOld >>,
      << NodeNullId >>,
      << NodeNaive >>,
      << NodeA, NodeOld >>,
      << NodeBadTs, NodeB >> }

Chains == UNION { [1..n -> PageCatalog] : n \in 1..MaxChain }

\* cursor tokens: page i + 1 is served to a request carrying Cursors[i]
Cursors == << "c1", "c2", "c3", "c4" >>

CursorPage(c) ==
    IF c = "" THEN 1
    ELSE IF \E i \in 1..Len(Cursors) : Cursors[i] = c
         THEN (CHOOSE i \in 1..Len(Cursors) : Cursors[i] = c) + 1
         ELSE 0

NoLink == [k |-> "none", cursor |-> ""]

\* the filter expression of build_filter, as the remote applies it
MatchesFilter(node, win) ==
    /\ node.attributes.k = "obj"
    /\ node.attributes.latest_disclosable_activity_at.k = "iso"
    /\ node.attributes.latest_disclosable_activity_at.dt.t >= win.start
    /\ node.attributes.latest_disclosable_activity_at.dt.t < win.end
    /\ node.attributes.total_awarded_amount.k = "num"
    /\ node.attributes.total_awarded_amount.n > 0

FilterModes == {"applied", "ignored", "nothing"}

\* the JSON document answering a request with the given cursor ("" = none);
\* filtered: the request carries the filter of the month's window
Response(chain, mode, c, filtered, win) ==
    LET i == CursorPage(c)
        raw == IF i \in 1..Len(chain) THEN chain[i] ELSE << >>
        shown == IF ~filtered \/ mode = "ignored" THEN raw
                 ELSE IF mode = "nothing" THEN << >>
                 ELSE SelectSeq(raw, LAMBDA nd : MatchesFilter(nd, win))
    IN  [data |-> shown,
         included |-> Included,
         next |-> IF i \in 1..(Len(chain) - 1)
                  THEN [k |-> "str", cursor |-> Cursors[i]] ELSE NoLink]

Spellings == << "querystring", "filter[query]", "query", "filter[q]" >>

\* per request kind: "200", "500" or "exc" (the transport fails); the remote
\* answers so from the pass `from` of a page loop on, and 200 before it
StatusOf(a, b, c, d, u) ==
    [spell |-> << a, b, c, d >>, unfiltered |-> u, from |-> 1]

FailingFrom(st, n) == [spell |-> st.spell, unfiltered |-> st.unfiltered, from |-> n]

StatusProfiles ==
    { StatusOf("200", "200", "200", "200", "200"),
      StatusOf("500", "200", "200", "200", "200"),
      StatusOf("500", "500", "500", "500", "200"),
      StatusOf("exc", "exc", "exc", "exc", "200"),
      StatusOf("200", "200", "200", "200", "500") }

-----------------------------------------------------------------------------
(* The runs.                                                               *)

T_2025_08 == << "2", "0", "2", "5", "-", "0", "8" >>

T_2025_13 == << "2", "0", "2", "5", "-", "1", "3" >>

T_2025_00 == << "2", "0", "2", "5", "-", "0", "0" >>

T_2025 == << "2", "0", "2", "5" >>

\* the month tokens tried on the command line
Tokens == { T_2025_08, T_2025_13, T_2025_00, T_2025 }

NoData == [data |-> << >>, included |-> << >>, next |-> NoLink]

env == << prog, month_arg, n_months, max_pages, remote, filter_mode, status >>

\* no function is called on its own during a run of a main
NoCall == [fn |-> "", arg |-> << >>]

NoRet == [fn |-> ""]

unit == << call, ret >>

Init ==
    /\ prog \in {"api_client", "aggregate_last6"}
    /\ month_arg \in Tokens
    /\ n_months \in 1..MaxMonths
    /\ prog = "api_client" => n_months = 1
    /\ max_pages \in 0..MaxPagesOpt
    /\ remote \in Chains
    /\ filter_mode \in FilterModes
    /\ status \in StatusProfiles
    /\ pc = "main"
    /\ months_list = << >>
    /\ month_idx = 0
    /\ month = << >>
    /\ page_index = 0
    /\ next_url = ""
    /\ cursor = ""
    /\ data = NoData
    /\ primary_n = -1
    /\ items = << >>
    /\ all_rows = << >>
    /\ requests = << >>
    /\ agg = << >>
    /\ outcome = "running"
    /\ call = NoCall
    /\ ret = NoRet

\* an exception that is swallowed: the fetch returns what it has
Fails_Swallowed(exc) ==
    /\ pc' = "collect"
    /\ outcome' = outcome

\* an exception leaves the run
Fails(exc) ==
    /\ pc' = "failed"
    /\ outcome' = exc

\* a page loop without its bound
RangeDone_Never(n) == FALSE

\* `for page_index in range(max_pages)`, lines 110 and 222: the loop is over
\* after n passes
RangeDone(n) == n >= max_pages

\* api_client.main, lines 348-355: up to the call of fetch_hacktivity
MainApiClient ==
    /\ pc = "main"
    /\ prog = "api_client"
    /\ month' = month_arg
    /\ pc' = "fetch"
    /\ UNCHANGED << env, unit, months_list, month_idx, page_index, next_url, cursor, data,
                    primary_n, items, all_rows, requests, agg, outcome >>

\* aggregate_last6.main, lines 40-43: month_iter and the first month of the loop
MainLast6 ==
    /\ pc = "main"
    /\ prog = "aggregate_last6"
    /\ IF MonthIterOk(month_arg)
       THEN /\ months_list' = month_iter(month_arg, n_months)
            /\ month_idx' = 1
            /\ month' = month_iter(month_arg, n_months)[1]
            /\ pc' = "fetch"
            /\ UNCHANGED outcome
       ELSE /\ Fails(MonthError)
            /\ UNCHANGED << months_list, month_idx, month >>
    /\ UNCHANGED << env, unit, page_index, next_url, cursor, data, primary_n, items,
                    all_rows, requests, agg >>

\* fetch_hacktivity, lines 85-93 and the loop's entry at line 110
FetchEnter ==
    /\ pc = "fetch"
    /\ IF parse_month(month).ok
       THEN /\ items' = << >>
            /\ next_url' = ""
            /\ cursor' = ""
            /\ page_index' = 0
            /\ data' = NoData
            /\ primary_n' = -1
            /\ pc' = IF RangeDone(0) THEN "fetched" ELSE "primary_loop"
            /\ UNCHANGED outcome
       ELSE /\ Fails(MonthError)
            /\ UNCHANGED << items, next_url, cursor, page_index, data, primary_n >>
    /\ UNCHANGED << env, unit, months_list, month_idx, month, all_rows, requests, agg >>

Request(kind, key, c, result) ==
    [kind |-> kind, key |-> key, cursor |-> c, month |-> month, result |-> result]

\* the remote's answer to spelling i / to an unfiltered request in this pass
SpellStatus(i) == IF page_index + 1 >= status.from THEN status.spell[i] ELSE "200"

UnfilteredStatus == IF page_index + 1 >= status.from THEN status.unfiltered ELSE "200"

\* lines 119-125: the spellings requested, the first answering 200 being the last
Probed ==
    IF \E i \in 1..4 : SpellStatus(i) = "200"
    THEN CHOOSE i \in 1..4 :
             SpellStatus(i) = "200" /\ \A j \in 1..(i - 1) : SpellStatus(j) # "200"
    ELSE 4

\* the response `resp` holds after the probe: the last one received, 0 if none
ProbeResp ==
    IF \E i \in 1..Probed : SpellStatus(i) # "exc"
    THEN CHOOSE i \in 1..Probed :
             SpellStatus(i) # "exc" /\ \A j \in (i + 1)..Probed : SpellStatus(j) = "exc"
    ELSE 0

\* a pagination step that takes a missing links.next for a cursor
LinkCursor_Missing(link) == IF link.k = "none" THEN "c1" ELSE link.cursor

\* links.next as a cursor, lines 193-203 and 275-280, for a link that is
\* absent or a bare token
LinkCursor(link) == IF link.k = "none" THEN "" ELSE link.cursor

(* links.next in general.  A text is the sequence of its pieces, the piece *)
(* "page[cursor]=" being the text the code searches for.  A link is        *)
(*   [k |-> "none"]  no links.next, or null                                *)
(*   [k |-> "str"]   a string, text                                        *)
(*   [k |-> "dict"]  an object; href = TRUE: its "href" is the string text *)
(*   [k |-> "other"] any other JSON value                                  *)
CursorKey == "page[cursor]="

HasKey(text) == \E i \in 1..Len(text) : text[i] = CursorKey

\* cursor.split("page[cursor]=", 1)[1]: all that follows the first occurrence
AfterKey(text) ==
    LET i == CHOOSE j \in 1..Len(text) :
                 text[j] = CursorKey /\ \A h \in 1..(j - 1) : text[h] # CursorKey
    IN  SubSeq(text, i + 1, Len(text))

\* fetch_hacktivity, lines 193-203: stop = the loop breaks, else the cursor kept
next_cursor(link) ==
    LET cur == IF link.k = "str" \/ (link.k = "dict" /\ link.href) THEN link.text
               ELSE << >>
    IN  IF cur = << >> THEN [stop |-> TRUE, cursor |-> << >>]
        ELSE IF HasKey(cur) THEN [stop |-> FALSE, cursor |-> AfterKey(cur)]
        ELSE [stop |-> FALSE, cursor |-> cur]

\* fetch_hacktivity, lines 110-203: one pass of the page loop
PrimaryPage ==
    /\ pc = "primary_loop"
    /\ LET win == parse_month(month)
           sent == IF next_url # ""
                   THEN << Request("next_url", "", next_url, "200") >>
                   ELSE [i \in 1..Probed |->
                            Request("filtered", Spellings[i], "", SpellStatus(i))]
           code == IF next_url # "" THEN "200"
                   ELSE IF ProbeResp = 0 THEN "exc" ELSE SpellStatus(ProbeResp)
           doc == Response(remote, filter_mode, next_url, TRUE, win)
           page == ResolvePage(doc.data, doc.included, TRUE)
           cur == LinkCursor(doc.next)
       IN  /\ requests' = requests \o sent
           /\ IF code = "exc"
              THEN /\ Fails("ConnectionError")
                   /\ UNCHANGED << data, items, cursor, page_index >>
              ELSE IF code # "200"
              THEN /\ Fails("HTTPError")
                   /\ UNCHANGED << data, items, cursor, page_index >>
              ELSE IF page.exc # ""
              THEN /\ Fails(page.exc)
                   /\ data' = doc
                   /\ UNCHANGED << items, cursor, page_index >>
              ELSE /\ data' = doc
                   /\ items' = items \o page.items
                   /\ cursor' = cur
                   /\ page_index' = page_index + 1
                   /\ pc' = IF cur = "" \/ RangeDone(page_index + 1)
                            THEN "fetched" ELSE "primary_loop"
                   /\ UNCHANGED outcome
    /\ UNCHANGED << env, unit, months_list, month_idx, month, next_url, primary_n,
                    all_rows, agg >>

\* a main that runs the fallback whatever the primary fetch returned
PrimaryReturned_Always ==
    /\ pc = "fetched"
    /\ primary_n' = Len(items)
    /\ items' = << >>
    /\ cursor' = ""
    /\ page_index' = 0
    /\ data' = NoData
    /\ pc' = IF RangeDone(0) THEN "collect" ELSE "fallback_loop"
    /\ UNCHANGED << env, unit, months_list, month_idx, month, next_url, all_rows,
                    requests, agg, outcome >>

\* main, `if not items:` after fetch_hacktivity returned, and the entry of
\* fetch_hacktivity_unfiltered (lines 213-222)
PrimaryReturned ==
    /\ pc = "fetched"
    /\ primary_n' = Len(items)
    /\ IF items = << >>
       THEN /\ cursor' = ""
            /\ page_index' = 0
            /\ data' = NoData
            /\ pc' = IF RangeDone(0) THEN "collect" ELSE "fallback_loop"
       ELSE /\ pc' = "collect"
            /\ UNCHANGED << cursor, page_index, data >>
    /\ UNCHANGED << env, unit, months_list, month_idx, month, next_url, items, all_rows,
                    requests, agg, outcome >>

InWindow(it, win) == win.start <= it.disclosed_at.t /\ it.disclosed_at.t < win.end

\* a local filter that keeps every item of the page
month_items_All(page_items, win) == page_items

\* line 267: the local filter
month_items(page_items, win) ==
    SelectSeq(page_items, LAMBDA it : InWindow(it, win) /\ it.total_awarded_amount > 0)

\* a scan without the early stop
StopsEarly_Never(page_items, win) == FALSE

\* line 271: the early stop
StopsEarly(page_items, win) ==
    /\ page_items # << >>
    /\ \A i \in 1..Len(page_items) : page_items[i].disclosed_at.t < win.start

\* fetch_hacktivity_unfiltered, lines 222-283: one pass of the page loop
FallbackPage ==
    /\ pc = "fallback_loop"
    /\ LET win == parse_month(month)
           doc == Response(remote, filter_mode, cursor, FALSE, win)
           page == ResolvePage(doc.data, doc.included, FALSE)
           href == LinkCursor(doc.next)
       IN  /\ requests' = Append(requests, Request("unfiltered", "", cursor, UnfilteredStatus))
           /\ IF UnfilteredStatus = "exc"
              THEN /\ Fails("ConnectionError")
                   /\ UNCHANGED << data, items, next_url, page_index >>
              ELSE IF UnfilteredStatus # "200"
              THEN /\ Fails("HTTPError")
                   /\ UNCHANGED << data, items, next_url, page_index >>
              ELSE IF page.exc # ""
              THEN /\ Fails(page.exc)
                   /\ data' = doc
                   /\ UNCHANGED << items, next_url, page_index >>
              ELSE IF \E i \in 1..Len(page.items) : ~page.items[i].disclosed_at.aware
              THEN /\ Fails(CompareError)
                   /\ data' = doc
                   /\ UNCHANGED << items, next_url, page_index >>
              ELSE /\ data' = doc
                   /\ items' = items \o month_items(page.items, win)
                   /\ page_index' = page_index + 1
                   /\ IF StopsEarly(page.items, win) \/ href = ""
                      THEN pc' = "collect" /\ UNCHANGED next_url
                      ELSE /\ next_url' = href
                           /\ pc' = IF RangeDone(page_index + 1)
                                    THEN "collect" ELSE "fallback_loop"
                   /\ UNCHANGED outcome
    /\ UNCHANGED << env, unit, months_list, month_idx, month, cursor, primary_n, all_rows, agg >>

\* api_client.main, lines 359-372
AggregateByProgram ==
    /\ pc = "collect"
    /\ prog = "api_client"
    /\ agg' = aggregate_by_program(items)
    /\ pc' = "done"
    /\ outcome' = "ok"
    /\ UNCHANGED << env, unit, months_list, month_idx, month, page_index, next_url, cursor,
                    data, primary_n, items, all_rows, requests >>

\* aggregate_last6.main, lines 47-54, and the next month of the loop at line 43
AppendRows ==
    /\ pc = "collect"
    /\ prog = "aggregate_last6"
    /\ all_rows' = all_rows \o Last6Rows(items)
    /\ IF month_idx < Len(months_list)
       THEN /\ month_idx' = month_idx + 1
            /\ month' = months_list[month_idx + 1]
            /\ pc' = "fetch"
       ELSE /\ pc' = "aggregate"
            /\ UNCHANGED << month_idx, month >>
    /\ UNCHANGED << env, unit, months_list, page_index, next_url, cursor, data, primary_n,
                    items, requests, agg, outcome >>

\* aggregate_last6.main, lines 56-70
AggregateLast6 ==
    /\ pc = "aggregate"
    /\ prog = "aggregate_last6"
    /\ agg' = aggregate_last6(all_rows)
    /\ pc' = "done"
    /\ outcome' = "ok"
    /\ UNCHANGED << env, unit, months_list, month_idx, month, page_index, next_url, cursor,
                    data, primary_n, items, all_rows, requests >>

Next ==
    \/ MainApiClient
    \/ MainLast6
    \/ FetchEnter
    \/ PrimaryPage
    \/ PrimaryReturned
    \/ FallbackPage
    \/ AggregateByProgram
    \/ AppendRows
    \/ AggregateLast6

Spec == Init /\ [][Next]_vars

-----------------------------------------------------------------------------
(* Runs over a valid month against a remote that starts to fail at some    *)
(* pass of a page loop.                                                    *)

InitFail ==
    /\ prog \in {"api_client", "aggregate_last6"}
    /\ month_arg = T_2025_08
    /\ n_months \in 1..MaxMonths
    /\ prog = "api_client" => n_months = 1
    /\ max_pages \in 1..MaxPagesOpt
    /\ remote \in Chains
    /\ filter_mode \in FilterModes
    /\ status \in { FailingFrom(st, n) : st \in StatusProfiles, n \in 1..MaxPagesOpt }
    /\ pc = "main"
    /\ months_list = << >>
    /\ month_idx = 0
    /\ month = << >>
    /\ page_index = 0
    /\ next_url = ""
    /\ cursor = ""
    /\ data = NoData
    /\ primary_n = -1
    /\ items = << >>
    /\ all_rows = << >>
    /\ requests = << >>
    /\ agg = << >>
    /\ outcome = "running"
    /\ call = NoCall
    /\ ret = NoRet

SpecFail == InitFail /\ [][Next]_vars

-----------------------------------------------------------------------------
(* The browser scraper, tools/hackerone_top/scraper.py.  The site is the   *)
(* sequence of its results pages, `remote`; a results page is the sequence *)
(* of the reports it links to, each with what its report page shows.       *)
(* `requests` holds the results pages loaded, `items` is all_entries and   *)
(* `page_index` the last p of the loop.                                    *)

\* what extract_details_from_report returns: a ReportEntry, or None when the
\* report page shows no date
Report(id, program, bounty, dated, d) ==
    [report_id |-> id, program |-> program, bounty_usd |-> bounty,
     dated |-> dated, disclosed_at |-> d]

ReportIn == Report("1", "X", 100, TRUE, Aware(2025, 8, 5))

ReportOld == Report("2", "Y", 50, TRUE, Aware(2025, 7, 20))

ReportNew == Report("3", "X", 50, TRUE, Aware(2025, 9, 3))

ReportNoDate == Report("4", "Y", 100, FALSE, NoDate)

\* the results pages the site's pages are drawn from
ResultsPages ==
    { << >>,
      << ReportIn >>,
      << ReportOld >>,
      << ReportNew >>,
      << ReportNoDate >>,
      << ReportIn, ReportOld >>,
      << ReportOld, ReportIn >>,
      << ReportNew, ReportIn >>,
      << ReportNoDate, ReportOld >> }

Sites == UNION { [1..n -> ResultsPages] : n \in 1..MaxChain }

\* extract_reports_on_page after load_hacktivity_page(page, p, ...): a page past
\* the last one links to no report
link_entries(site, p) == IF p \in 1..Len(site) THEN site[p] ELSE << >>

\* scrape_month, lines 246-254: the entries the inner loop appends
RECURSIVE VisitReports(_, _)
VisitReports(entries, win) ==
    IF entries = << >> THEN << >>
    ELSE LET details == Head(entries)
         IN  IF ~details.dated THEN VisitReports(Tail(entries), win)
             ELSE IF win.start <= details.disclosed_at.t /\ details.disclosed_at.t < win.end
                  THEN << details >> \o VisitReports(Tail(entries), win)
             ELSE IF details.disclosed_at.t < win.start THEN << >>
             ELSE VisitReports(Tail(entries), win)

InitScrape ==
    /\ prog = "scraper"
    /\ month_arg \in { T_2025_08, T_2025_13 }
    /\ n_months = 1
    /\ max_pages \in 0..MaxPagesOpt
    /\ remote \in Sites
    /\ filter_mode = "applied"
    /\ status = StatusOf("200", "200", "200", "200", "200")
    /\ pc = "main"
    /\ months_list = << >>
    /\ month_idx = 0
    /\ month = << >>
    /\ page_index = 0
    /\ next_url = ""
    /\ cursor = ""
    /\ data = NoData
    /\ primary_n = -1
    /\ items = << >>
    /\ all_rows = << >>
    /\ requests = << >>
    /\ agg = << >>
    /\ outcome = "running"
    /\ call = NoCall
    /\ ret = NoRet

\* scraper.main and scrape_month, lines 234-240: parse_month and the loop's entry
ScrapeEnter ==
    /\ pc = "main"
    /\ prog = "scraper"
    /\ month' = month_arg
    /\ IF parse_month(month_arg).ok
       THEN /\ pc' = IF max_pages = 0 THEN "scraped" ELSE "scrape_loop"
            /\ UNCHANGED outcome
       ELSE Fails(MonthError)
    /\ UNCHANGED << env, unit, months_list, month_idx, page_index, next_url, cursor,
                    data, primary_n, items, all_rows, requests, agg >>

\* scrape_month, lines 243-255: after this page the `for p` loop goes on
ScrapeGoesOn(entries, win) == entries # << >>

\* scrape_month, lines 240-255: one pass of the `for p` loop
ScrapePage ==
    /\ pc = "scrape_loop"
    /\ LET p == page_index + 1
           win == parse_month(month)
           entries == link_entries(remote, p)
       IN  /\ page_index' = p
           /\ requests' = Append(requests, [kind |-> "results", page |-> p])
           /\ items' = items \o VisitReports(entries, win)
           /\ pc' = IF ScrapeGoesOn(entries, win) /\ p < max_pages
                    THEN "scrape_loop" ELSE "scraped"
    /\ UNCHANGED << env, unit, months_list, month_idx, month, next_url, cursor, data,
                    primary_n, all_rows, agg, outcome >>

\* scraper.aggregate_by_program, lines 262-271: the rows
ScraperRows(entries) ==
    LET kept == SelectSeq(entries, LAMBDA e : e.bounty_usd # 0 /\ e.program # "")
    IN  [i \in 1..Len(kept) |->
            [program |-> kept[i].program, bounty_usd |-> kept[i].bounty_usd,
             report_id |-> Str(kept[i].report_id)]]

\* scraper.main, lines 342-357: aggregate and report
ScrapeAggregate ==
    /\ pc = "scraped"
    /\ agg' = IF ScraperRows(items) = << >> THEN << >>
              ELSE SortValues(GroupByProgram(ScraperRows(items)))
    /\ pc' = "done"
    /\ outcome' = "ok"
    /\ UNCHANGED << env, unit, months_list, month_idx, month, page_index, next_url,
                    cursor, data, primary_n, items, all_rows, requests >>

NextScrape ==
    \/ ScrapeEnter
    \/ ScrapePage
    \/ ScrapeAggregate

SpecScrape == InitScrape /\ [][NextScrape]_vars

-----------------------------------------------------------------------------
(* Runs over every month of two years and windows of up to MaxWindow       *)
(* months, against a remote of one page.                                   *)

MaxWindow == 13

EndMonths ==
    { y \o << "-" >> \o ZeroPad(Digits(m), 2) :
        y \in { << "2", "0", "2", "4" >>, << "2", "0", "2", "5" >> }, m \in 1..12 }

InitWindow ==
    /\ prog \in {"api_client", "aggregate_last6"}
    /\ month_arg \in EndMonths
    /\ n_months \in 1..MaxWindow
    /\ prog = "api_client" => n_months = 1
    /\ max_pages = 1
    /\ remote = << << NodeA >> >>
    /\ filter_mode = "applied"
    /\ status = StatusOf("200", "200", "200", "200", "200")
    /\ pc = "main"
    /\ months_list = << >>
    /\ month_idx = 0
    /\ month = << >>
    /\ page_index = 0
    /\ next_url = ""
    /\ cursor = ""
    /\ data = NoData
    /\ primary_n = -1
    /\ items = << >>
    /\ all_rows = << >>
    /\ requests = << >>
    /\ agg = << >>
    /\ outcome = "running"
    /\ call = NoCall
    /\ ret = NoRet

SpecWindow == InitWindow /\ [][Next]_vars

-----------------------------------------------------------------------------
(* Aggregation alone: the two aggregations applied to any list of items.   *)

Ids == { Str("a"), Str(""), Null }

Amounts == { -50, 0, 50, 100 }

ItemSet ==
    [id : Ids, program : {"X", "Y"}, total_awarded_amount : Amounts,
     disclosed_at : {Aware(2025, 8, 5)}]

ItemLists == UNION { [1..n -> ItemSet] : n \in 0..MaxItems }

InitAgg ==
    /\ prog \in {"api_client", "aggregate_last6"}
    /\ month_arg = T_2025_08
    /\ n_months = 1
    /\ max_pages = 1
    /\ remote = << << >> >>
    /\ filter_mode = "ignored"
    /\ status = StatusOf("200", "200", "200", "200", "200")
    /\ pc = "collect"
    /\ months_list = << T_2025_08 >>
    /\ month_idx = 1
    /\ month = T_2025_08
    /\ page_index = 0
    /\ next_url = ""
    /\ cursor = ""
    /\ data = NoData
    /\ primary_n = -1
    /\ items \in ItemLists
    /\ all_rows = << >>
    /\ requests = << >>
    /\ agg = << >>
    /\ outcome = "running"
    /\ call = NoCall
    /\ ret = NoRet

NextAgg ==
    \/ AggregateByProgram
    \/ AppendRows
    \/ AggregateLast6

SpecAgg == InitAgg /\ [][NextAgg]_vars

-----------------------------------------------------------------------------
(* parse_month alone, on month tokens of every shape.                      *)

MaxMonthNo == 13

YearTexts ==
    { << "0", "0", "0", "0" >>, << "0", "0", "0", "1" >>, << "2", "0", "2", "4" >>,
      << "2", "0", "2", "5" >>, << "9", "9", "9", "8" >>, << "9", "9", "9", "9" >> }

\* "00" .. "13", and the months written with one digit
MonthTexts ==
    { ZeroPad(Digits(m), 2) : m \in 0..MaxMonthNo } \cup { Digits(m) : m \in 0..9 }

MonthTokens ==
    { y \o << "-" >> \o m : y \in YearTexts, m \in MonthTexts } \cup { T_2025 }

\* the state of a run in which no main runs: a function is called on its own
Idle ==
    /\ prog = "api_client"
    /\ month_arg = T_2025_08
    /\ n_months = 1
    /\ max_pages = 1
    /\ remote = << << >> >>
    /\ filter_mode = "ignored"
    /\ status = StatusOf("200", "200", "200", "200", "200")
    /\ pc = "unit"
    /\ months_list = << >>
    /\ month_idx = 0
    /\ month = << >>
    /\ page_index = 0
    /\ next_url = ""
    /\ cursor = ""
    /\ data = NoData
    /\ primary_n = -1
    /\ items = << >>
    /\ all_rows = << >>
    /\ requests = << >>
    /\ agg = << >>
    /\ outcome = "running"

run == << env, pc, months_list, month_idx, month, page_index, next_url, cursor, data,
          primary_n, items, all_rows, requests, agg, outcome >>

InitMonth ==
    /\ Idle
    /\ call \in { [fn |-> "parse_month", arg |-> tok] : tok \in MonthTokens }
    /\ ret = NoRet

\* parse_month(month) is called and returns or raises
ParseMonth ==
    /\ call.fn = "parse_month"
    /\ ret = NoRet
    /\ ret' = [fn |-> "parse_month", val |-> parse_month(call.arg)]
    /\ UNCHANGED << run, call >>

NextMonth == ParseMonth

SpecMonth == InitMonth /\ [][NextMonth]_vars

-----------------------------------------------------------------------------
(* The two node resolvers alone, on one node of a page and the page's      *)
(* "included" list.                                                        *)

MaxIncluded == 2

\* shapes of relationships.program: inline names, pointers into "included"
\* ("p1") and out of it ("p9")
ProgramRels ==
    { RelAbsent, RelNoData, RelNull,
      RelPointer("p1"), RelPointer("p9"),
      RelInline("p1", Str("X"), Null),
      RelInline("p1", Null, Str("hx")),
      RelInline("p1", Str("Y"), Str("hy")),
      RelInline("p9", Str(""), Str("")) }

TeamRels == { RelAbsent, RelPointer("p1"), RelPointer("t1") }

AwardRels == { RelAbsent, RelPointer("a1") }

\* the resources a page may include; an award may carry the id of a program
Resources ==
    { IncProgram("p1", Str("X"), Null),
      IncProgram("p1", Null, Str("hx")),
      IncProgram("t1", Str("X"), Null),
      IncAward("a1", Num(75), Null),
      IncAward("p1", Null, Num(75)) }

IncludedLists == UNION { [1..n -> Resources] : n \in 0..MaxIncluded }

NodeAmounts == { Absent, Num(100), Num(0), Str("n/a") }

NodeInputs ==
    { [id |-> Str("a"),
       attributes |-> [k |-> "obj", total_awarded_amount |-> a,
                       total_awarded_amount_in_usd |-> Absent,
                       awarded_amount |-> Absent, bounty_amount |-> Absent,
                       latest_disclosable_activity_at |-> lda, disclosed_at |-> da],
       relationships |-> [k |-> "obj", program |-> p, team |-> t, award |-> w]] :
      a \in NodeAmounts,
      lda \in { TsIso(Aware(2025, 8, 5)), TsNull },
      da \in { TsIso(Aware(2025, 8, 5)), TsIso(Aware(2025, 8, 9)), TsNull },
      p \in ProgramRels, t \in TeamRels, w \in AwardRels }

\* a resolver that has not run on the node
NotRun == [r |-> "none", exc |-> "", item |-> NoItem]

InitResolve ==
    /\ Idle
    /\ call \in { [fn |-> "resolve", node |-> nd, included |-> inc] :
                     nd \in NodeInputs, inc \in IncludedLists }
    /\ ret = [fn |-> "resolve", primary |-> NotRun, fallback |-> NotRun]

\* the node is met by the loop of fetch_hacktivity
ResolveOnPrimary ==
    /\ call.fn = "resolve"
    /\ ret.primary = NotRun
    /\ ret' = [ret EXCEPT !.primary = ResolvePrimary(call.node, call.included)]
    /\ UNCHANGED << run, call >>

\* the node is met by the loop of fetch_hacktivity_unfiltered
ResolveOnFallback ==
    /\ call.fn = "resolve"
    /\ ret.fallback = NotRun
    /\ ret' = [ret EXCEPT !.fallback = ResolveFallback(call.node, call.included)]
    /\ UNCHANGED << run, call >>

NextResolve ==
    \/ ResolveOnPrimary
    \/ ResolveOnFallback

SpecResolve == InitResolve /\ [][NextResolve]_vars

-----------------------------------------------------------------------------
(* The node resolvers on nodes that differ in their amount attributes and  *)
(* in the award they point at.                                             *)

AmountAttrs ==
    { [k |-> "obj", total_awarded_amount |-> t, total_awarded_amount_in_usd |-> u,
       awarded_amount |-> a, bounty_amount |-> b,
       latest_disclosable_activity_at |-> TsIso(Aware(2025, 8, 5)),
       disclosed_at |-> TsIso(Aware(2025, 8, 5))] :
      t \in { Absent, Num(0), Num(10) },
      u \in { Absent, Null, Num(20) },
      a \in { Absent, Str(""), Num(30) },
      b \in { Absent, Num(40), NumStr(45) } }

AmountAwardRels == { RelAbsent, RelNoData, RelPointer("a1"), RelPointer("a9") }

AmountIncluded ==
    { << >>,
      << IncAward("a1", Num(75), Null) >>,
      << IncAward("a1", Null, Num(60)) >>,
      << IncAward("a1", Num(75), Num(60)) >>,
      << IncAward("a1", Num(0), Num(60)) >> }

InitAmount ==
    /\ Idle
    /\ call \in { [fn |-> "resolve",
                    node |-> [id |-> Str("a"), attributes |-> at,
                              relationships |-> [k |-> "obj",
                                                 program |-> RelInline("p1", Str("X"), Null),
                                                 team |-> RelPointer("p1"), award |-> w]],
                    included |-> inc] :
                     at \in AmountAttrs, w \in AmountAwardRels, inc \in AmountIncluded }
    /\ ret = [fn |-> "resolve", primary |-> NotRun, fallback |-> NotRun]

SpecAmount == InitAmount /\ [][NextResolve]_vars

-----------------------------------------------------------------------------
(* Cursor extraction alone, on links.next values of every form.            *)

MaxParams == 3

\* query parameters of a next link, each the sequence of its pieces
QueryParams ==
    { << CursorKey, "c1" >>, << CursorKey, "c2" >>, << "page%5Bcursor%5D=", "c1" >>,
      << "page[size]=100" >>, << "include=program" >> }

\* at most one parameter of a name in a query
Queries ==
    UNION { { q \in [1..n -> QueryParams] :
                \A a, b \in 1..n : a # b => q[a][1] # q[b][1] } : n \in 1..MaxParams }

\* "&".join(params)
RECURSIVE JoinAmp(_)
JoinAmp(q) ==
    IF Len(q) = 1 THEN q[1] ELSE q[1] \o << "&" >> \o JoinAmp(Tail(q))

UrlOf(q) == << "https://api.hackerone.com/v1/hacktivity?" >> \o JoinAmp(q)

LinkTexts == { UrlOf(q) : q \in Queries } \cup { << "c1" >>, << "c2" >>, << >> }

Links ==
    { [k |-> "str", href |-> FALSE, text |-> t] : t \in LinkTexts }
    \cup { [k |-> "dict", href |-> TRUE, text |-> t] : t \in LinkTexts }
    \cup { [k |-> "dict", href |-> FALSE, text |-> << >>],
           [k |-> "none", href |-> FALSE, text |-> << >>],
           [k |-> "other", href |-> FALSE, text |-> << >>] }

InitCursor ==
    /\ Idle
    /\ call \in { [fn |-> "next_cursor", link |-> l] : l \in Links }
    /\ ret = NoRet

\* the pagination step of fetch_hacktivity on one links.next
ExtractCursor ==
    /\ call.fn = "next_cursor"
    /\ ret = NoRet
    /\ ret' = [fn |-> "next_cursor", val |-> next_cursor(call.link)]
    /\ UNCHANGED << run, call >>

NextCursor == ExtractCursor

SpecCursor == InitCursor /\ [][NextCursor]_vars

-----------------------------------------------------------------------------
(* Properties.                                                             *)

\* the items of entity p that count: amount > 0
Contributing(its, p) ==
    SelectSeq(its, LAMBDA it : it.program = p /\ it.total_awarded_amount > 0)

RECURSIVE TotalOf(_)
TotalOf(its) ==
    IF its = << >> THEN 0 ELSE Head(its).total_awarded_amount + TotalOf(Tail(its))

\* position of the first contributing item of entity p
FirstSeen(its, p) ==
    CHOOSE i \in 1..Len(its) :
        /\ its[i].program = p /\ its[i].total_awarded_amount > 0
        /\ \A j \in 1..(i - 1) : ~(its[j].program = p /\ its[j].total_awarded_amount > 0)

RowsOf(table, p) == SelectSeq(table, LAMBDA r : r.program = p)

RowSet(table) == { table[i] : i \in DOMAIN table }

Perms(n) == { f \in [1..n -> 1..n] : \A a, b \in 1..n : a # b => f[a] # f[b] }

Shuffled(its, f) == [i \in 1..Len(its) |-> its[f[i]]]

PositiveRows(rows) == SelectSeq(rows, LAMBDA r : r.bounty_usd > 0)

(* C2: a record whose amount is zero or negative contributes to no row of  *)
(* the aggregation and creates no group: in a run over valid months every  *)
(* row has a positive total, and the table is the one the positive records *)
(* alone give, in the single-month run and in the multi-month run.         *)
C2_NonPositiveExcluded ==
    (pc = "done" /\ StrptimeOk(month_arg)) =>
        /\ \A i \in 1..Len(agg) : agg[i].total_bounty_usd > 0
        /\ prog = "api_client" => agg = aggregate_by_program(PositiveItems(items))
        /\ prog = "aggregate_last6" => agg = aggregate_last6(PositiveRows(all_rows))

(* C3, as stated: rows are in descending order of total, equal totals in   *)
(* descending order of count, and rows equal on both in the order in which *)
(* their entities were first met in the input records.                     *)
C3_TiesInEncounterOrder ==
    (pc = "done" /\ prog = "api_client") =>
        \A i, j \in 1..Len(agg) : i < j =>
            \/ agg[i].total_bounty_usd > agg[j].total_bounty_usd
            \/ /\ agg[i].total_bounty_usd = agg[j].total_bounty_usd
               /\ agg[i].report_count > agg[j].report_count
            \/ /\ agg[i].total_bounty_usd = agg[j].total_bounty_usd
               /\ agg[i].report_count = agg[j].report_count
               /\ FirstSeen(items, agg[i].program) < FirstSeen(items, agg[j].program)

(* C3, amended: rows are in descending order of total, equal totals in     *)
(* descending order of count, and rows equal on both in ascending order of *)
(* the entity name; in both aggregations.                                  *)
C3_TiesInNameOrder ==
    pc = "done" =>
        \A i, j \in 1..Len(agg) : i < j =>
            \/ agg[i].total_bounty_usd > agg[j].total_bounty_usd
            \/ /\ agg[i].total_bounty_usd = agg[j].total_bounty_usd
               /\ agg[i].report_count > agg[j].report_count
            \/ /\ agg[i].total_bounty_usd = agg[j].total_bounty_usd
               /\ agg[i].report_count = agg[j].report_count
               /\ NameRank(agg[i].program) < NameRank(agg[j].program)

\* C3, witness: two rows tie on total and count, and Y was met before X
C3_TieReached ==
    /\ pc = "done"
    /\ Len(agg) = 2
    /\ agg[1].total_bounty_usd = agg[2].total_bounty_usd
    /\ agg[1].report_count = agg[2].report_count
    /\ items[1].program = "Y"
    /\ items[1].total_awarded_amount > 0

(* C4: in the result of aggregate_by_program every entity with a           *)
(* positive-amount record has exactly one row, whose total is the sum of   *)
(* the amounts of its positive-amount records and whose count is their     *)
(* number; an entity without such a record has no row.                     *)
C4_RowsMatchRecords ==
    (pc = "done" /\ prog = "api_client") =>
        \A p \in Programs :
            LET c == Contributing(items, p)
                rows == RowsOf(agg, p)
            IN  IF c = << >> THEN rows = << >>
                ELSE /\ Len(rows) = 1
                     /\ rows[1].total_bounty_usd = TotalOf(c)
                     /\ rows[1].report_count = Len(c)

NodesWithId(chain, x) ==
    Cardinality({ << i, j >> \in (1..Len(chain)) \X (1..3) :
                      j <= Len(chain[i]) /\ chain[i][j].id = x })

ItemsWithId(its, x) == Cardinality({ i \in 1..Len(its) : its[i].id = x })

(* C1: over a cursor-linked remote whose chain is no longer than max_pages *)
(* every record of every page is folded into the aggregation exactly once: *)
(* the list aggregated holds each node of the chain once, and the chain    *)
(* page 1 = [a: X, 100], page 2 = [b: X, 50] gives the one row             *)
(* {X, total 150, count 2}.                                                *)
C1_EveryRecordOnce ==
    ( /\ pc = "done"
      /\ prog = "api_client"
      /\ filter_mode = "ignored"
      /\ primary_n > 0
      /\ Len(remote) <= max_pages ) =>
        /\ \A x \in Ids \cup { Str("b"), Str("z"), Str("o"), Str("n") } :
               ItemsWithId(items, x) = NodesWithId(remote, x)
        /\ remote = << << NodeA >>, << NodeB >> >> =>
               agg = << [program |-> "X", total_bounty_usd |-> 150, report_count |-> 2] >>

\* a token that is a year-month pair: YYYY-MM with MM in 01..12
ValidYearMonth(tok) ==
    /\ Len(tok) = 7
    /\ \A i \in {1, 2, 3, 4, 6, 7} : IsDigit(tok[i])
    /\ tok[5] = "-"
    /\ 10 * DigitVal(tok[6]) + DigitVal(tok[7]) \in 1..12

(* C6: a run given a month token that is no valid year-month pair issues   *)
(* no request and does not complete: it ends with the error of the token.  *)
C6_InvalidTokenFatal ==
    ~ValidYearMonth(month_arg) =>
        /\ requests = << >>
        /\ pc \in {"main", "fetch", "failed"}
        /\ outcome \in {"running", MonthError}

\* the page processed last holds a record dated before the window start
HasOldRecord(doc, start) ==
    \E i \in 1..Len(doc.data) :
        /\ doc.data[i].attributes.disclosed_at.k = "iso"
        /\ doc.data[i].attributes.disclosed_at.dt.t < start

AllRecordsOld(doc, start) ==
    /\ \E i \in 1..Len(doc.data) : doc.data[i].attributes.disclosed_at.k = "iso"
    /\ \A i \in 1..Len(doc.data) :
           doc.data[i].attributes.disclosed_at.k = "iso" =>
               doc.data[i].attributes.disclosed_at.dt.t < start

C8_FallbackItemsInWindow ==
    (primary_n = 0 /\ pc \in {"fallback_loop", "collect"}) =>
        \A i \in 1..Len(items) :
            /\ items[i].disclosed_at.t >= parse_month(month).start
            /\ items[i].disclosed_at.t < parse_month(month).end
            /\ items[i].total_awarded_amount > 0

\* C8, witness: the fallback scan returned records
C8_FallbackReturned ==
    /\ pc = "collect"
    /\ primary_n = 0
    /\ items # << >>
    /\ \E i \in 1..Len(requests) : requests[i].kind = "unfiltered"

\* the unfiltered requests issued for month m
UnfilteredFor(m) ==
    { i \in 1..Len(requests) : requests[i].kind = "unfiltered" /\ requests[i].month = m }

(* C9: for each month the fallback fetch is started if and only if the     *)
(* primary fetch has returned and returned no record: no unfiltered        *)
(* request before the primary fetch returned or after it returned a        *)
(* record, one whenever it returned none (max_pages > 0); and a run whose  *)
(* fetches all return nothing ends normally with an empty table.           *)
C9_FallbackIffPrimaryEmpty ==
    /\ pc \in {"primary_loop", "fetched"} => UnfilteredFor(month) = {}
    /\ (pc \in {"fallback_loop", "collect"} /\ primary_n # 0) => UnfilteredFor(month) = {}
    /\ pc = "fallback_loop" => primary_n = 0
    /\ (pc = "collect" /\ primary_n = 0 /\ max_pages > 0) => UnfilteredFor(month) # {}
    /\ (pc = "done" /\ prog = "api_client" /\ items = << >>) =>
           (outcome = "ok" /\ agg = << >>)
    /\ (pc = "done" /\ prog = "aggregate_last6" /\ all_rows = << >>) =>
           (outcome = "ok" /\ agg = << >>)

\* C9, witness: both fetches of the month returned nothing and the run ended normally
C9_BothEmptyDone ==
    /\ pc = "done"
    /\ prog = "api_client"
    /\ primary_n = 0
    /\ items = << >>
    /\ UnfilteredFor(month) # {}
    /\ outcome = "ok"

(* C10: no single-month run ends with an exception raised while a node is  *)
(* resolved or filtered: a malformed node is skipped and the fetch goes    *)
(* on.                                                                     *)
C10_NoCrashOnNode ==
    prog = "api_client" =>
        outcome \notin { AttributeError, FloatError, IsoformatError, CompareError }

\* the year and the month a YYYY-MM token spells
YearOf(tok) ==
    1000 * DigitVal(tok[1]) + 100 * DigitVal(tok[2]) + 10 * DigitVal(tok[3]) + DigitVal(tok[4])

MonthOf(tok) == 10 * DigitVal(tok[6]) + DigitVal(tok[7])

\* parse_month returned the calendar month of the token: from day 1 of the
\* month to day 1 of the following month, one month later on the grid
WindowOfMonth(tok, r) ==
    /\ r.ok
    /\ r.start = Instant(YearOf(tok), MonthOf(tok), 1)
    /\ r.end = r.start + 31
    /\ r.start < r.end
    /\ MonthOf(tok) = 12 => r.end = Instant(YearOf(tok) + 1, 1, 1)
    /\ MonthOf(tok) < 12 => r.end = Instant(YearOf(tok), MonthOf(tok) + 1, 1)

(* C11, as stated: for every valid YYYY-MM token (year 0001..9999, month   *)
(* 01..12) parse_month returns start = day 1 of that month and end = day 1 *)
(* of the following month, December rolling to January of year + 1, so     *)
(* that start < end and the window is one calendar month.                  *)
C11_WindowForEveryToken ==
    (ret # NoRet /\ ValidYearMonth(call.arg) /\ YearOf(call.arg) >= 1) =>
        WindowOfMonth(call.arg, ret.val)

(* C11, amended: the same for every valid token except 9999-12, whose end  *)
(* lies past the last year a datetime holds: there parse_month raises the  *)
(* ValueError of an invalid token.                                         *)
C11_WindowUpToMaxYear ==
    (ret # NoRet /\ ValidYearMonth(call.arg) /\ YearOf(call.arg) >= 1) =>
        IF YearOf(call.arg) = 9999 /\ MonthOf(call.arg) = 12
        THEN ~ret.val.ok
        ELSE WindowOfMonth(call.arg, ret.val)

\* C11, witness: a December token was parsed into a window
C11_DecemberParsed ==
    /\ ret # NoRet
    /\ ValidYearMonth(call.arg)
    /\ MonthOf(call.arg) = 12
    /\ ret.val.ok

\* the resource the page's included index holds for id i: the last one listed
IndexHits(included, i) == { k \in 1..Len(included) : included[k].id = i }

Indexed(included, i) ==
    included[CHOOSE k \in IndexHits(included, i) :
                 \A h \in IndexHits(included, i) : h <= k]

\* the name the resolution order gives a node with relationship rel
NameInOrder(rel, included) ==
    LET embedded == rel.k \in {"pointer", "inline"}
    IN  IF embedded /\ Truthy(rel.name) THEN rel.name.s
        ELSE IF embedded /\ Truthy(rel.handle) THEN rel.handle.s
        ELSE IF embedded /\ IndexHits(included, rel.id) # {}
             THEN LET inc == Indexed(included, rel.id)
                  IN  IF Truthy(inc.name) THEN inc.name.s
                      ELSE IF Truthy(inc.handle) THEN inc.handle.s
                      ELSE "Unknown Program"
        ELSE "Unknown Program"

(* C12: a node the primary fetch resolves gets its entity name in this     *)
(* order: the inline attribute of the embedded relationship object (name,  *)
(* else handle), else the resource the included index holds for the        *)
(* pointed-to id (name, else handle), else "Unknown Program"; so a node    *)
(* that only points at an included resource named X is named X, as is a    *)
(* node carrying the name X inline.                                        *)
C12_NameResolutionOrder ==
    (call.fn = "resolve" /\ ret.primary.r = "item") =>
        LET rel == call.node.relationships.program
        IN  /\ ret.primary.item.program = NameInOrder(rel, call.included)
            /\ (rel = RelPointer("p1")
                  /\ call.included = << IncProgram("p1", Str("X"), Null) >>) =>
                    ret.primary.item.program = "X"
            /\ rel = RelInline("p1", Str("X"), Null) => ret.primary.item.program = "X"

\* C12, witness: a node that only points at its program was named through
\* the included index
C12_NamedThroughIndex ==
    /\ call.fn = "resolve"
    /\ ret.primary.r = "item"
    /\ call.node.relationships.program.k = "pointer"
    /\ ret.primary.item.program = "X"

\* the value of the page[cursor] parameter of a text: the piece after the key
CursorParam(text) ==
    text[(CHOOSE j \in 1..Len(text) : text[j] = CursorKey) + 1]

(* C13: a links.next that is a full URL with the page[cursor] parameter,   *)
(* given as a string or as the href of an object, is unwrapped to the      *)
(* value of that parameter and nothing else, which is the cursor a         *)
(* links.next equal to that bare token gives, wherever the parameter sits  *)
(* in the query string.                                                    *)
C13_UnwrapsToBareToken ==
    (call.fn = "next_cursor" /\ ret # NoRet /\ HasKey(call.link.text)) =>
        /\ ~ret.val.stop
        /\ ret.val.cursor = << CursorParam(call.link.text) >>
        /\ ret.val =
               next_cursor([k |-> "str", href |-> FALSE,
                            text |-> << CursorParam(call.link.text) >>])

\* the filtered requests of month m that were answered 200: the page fetches
\* of the primary fetch
FilteredOkFor(m) ==
    { i \in 1..Len(requests) :
        requests[i].kind = "filtered" /\ requests[i].month = m /\ requests[i].result = "200" }

(* C14: when the remote's first response has no links.next, the primary    *)
(* fetch of a month returns after exactly one page fetch (one request      *)
(* answered 200), and so does the fallback fetch: while a fetch is in its  *)
(* loop it has fetched no page yet, and once it returned it has fetched    *)
(* one.                                                                    *)
C14_OnePageWithoutNext ==
    Len(remote) = 1 =>
        /\ pc = "primary_loop" => FilteredOkFor(month) = {}
        /\ (pc \in {"fetched", "fallback_loop", "collect"} /\ max_pages > 0) =>
               Cardinality(FilteredOkFor(month)) = 1
        /\ pc = "fallback_loop" => UnfilteredFor(month) = {}
        /\ (pc = "collect" /\ primary_n = 0 /\ max_pages > 0) =>
               Cardinality(UnfilteredFor(month)) = 1

\* C14, witness: both fetches of a month returned after one page each, with
\* pages left to fetch
C14_OnePageEach ==
    /\ pc = "collect"
    /\ Len(remote) = 1
    /\ max_pages >= 2
    /\ primary_n = 0
    /\ data.next.k = "none"
    /\ Cardinality(FilteredOkFor(month)) = 1
    /\ Cardinality(UnfilteredFor(month)) = 1

\* request r decided its page fetch and was not answered 200: an unfiltered
\* request, or the last spelling of a probe
FailedCommitted(r) ==
    /\ r.result # "200"
    /\ r.kind = "unfiltered" \/ (r.kind = "filtered" /\ r.key = Spellings[4])

(* C15: a request that decides a page fetch and is answered with a         *)
(* non-success status, or fails in transport, ends the fetch and the run   *)
(* with that error: it is the last request issued (not re-issued, no       *)
(* further page), the run is in its failed state with the HTTP or          *)
(* transport error, and nothing is aggregated from the records fetched so  *)
(* far.                                                                    *)
C15_FailedRequestFatal ==
    \A i \in 1..Len(requests) :
        FailedCommitted(requests[i]) =>
            /\ i = Len(requests)
            /\ pc = "failed"
            /\ outcome \in {"HTTPError", "ConnectionError"}
            /\ agg = << >>

\* C15, witness: the fetch failed on its second pass, after the first pass
\* had collected records
C15_FailedAfterRecords ==
    /\ pc = "failed"
    /\ outcome = "HTTPError"
    /\ items # << >>
    /\ page_index >= 1
    /\ FailedCommitted(requests[Len(requests)])

\* results page p links to a dated report disclosed before the month start;
\* the scraper meets the first such report of every page it loads
MeetsOldReport(site, p, start) ==
    \E i \in 1..Len(link_entries(site, p)) :
        /\ link_entries(site, p)[i].dated
        /\ link_entries(site, p)[i].disclosed_at.t < start

(* C16: once scrape_month has met a report disclosed before the month      *)
(* start it loads no further results page: every results page loaded       *)
(* before the last one held no such report.                                *)
C16_ScraperStopsWhenOld ==
    prog = "scraper" =>
        \A i \in 1..(Len(requests) - 1) :
            ~MeetsOldReport(remote, requests[i].page, parse_month(month).start)

\* the page fetches of one fetch, in order: the requests of a kind issued for
\* month m and answered 200
PageFetches(kind, m) ==
    SelectSeq(requests, LAMBDA r : r.kind = kind /\ r.month = m /\ r.result = "200")

(* C17: within one fetch, primary or fallback, the first page request      *)
(* carries no cursor and every later one the cursor of the response just   *)
(* before it: the k-th page fetch asks for the k-th page of the remote's   *)
(* chain, and no page is asked for twice (runs over valid months).         *)
C17_RequestsFollowChain ==
    (prog \in {"api_client", "aggregate_last6"} /\ StrptimeOk(month_arg)) =>
        \A kind \in {"filtered", "unfiltered"} :
            \A k \in 1..Len(PageFetches(kind, month)) :
                CursorPage(PageFetches(kind, month)[k].cursor) = k

\* the filtered requests issued for month m, in order
FilteredFor(m) ==
    SelectSeq(requests, LAMBDA r : r.kind = "filtered" /\ r.month = m)

SpellingNo(key) == CHOOSE k \in 1..4 : Spellings[k] = key

(* C18: in the primary fetch of a month the spellings are tried in the     *)
(* order querystring, filter[query], query, filter[q]: the first request   *)
(* uses the first spelling, a spelling that is not answered 200 is         *)
(* followed by the next one, a spelling answered 200 is not followed by    *)
(* the next one, and a spelling that was not answered 200 is not requested *)
(* again in that fetch (runs over valid months).                           *)
C18_FailedSpellingNotRetried ==
    StrptimeOk(month_arg) =>
        LET F == FilteredFor(month)
        IN  /\ F # << >> => F[1].key = Spellings[1]
            /\ \A i \in 1..(Len(F) - 1) :
                   IF F[i].result # "200" /\ SpellingNo(F[i].key) < 4
                   THEN SpellingNo(F[i + 1].key) = SpellingNo(F[i].key) + 1
                   ELSE SpellingNo(F[i + 1].key) # SpellingNo(F[i].key) + 1
            /\ \A i, j \in 1..Len(F) :
                   (i < j /\ F[i].result # "200") => F[j].key # F[i].key

(* C19: after a response whose data list holds no record a fetch issues no *)
(* further page request, next cursor or not: neither page loop is about to *)
(* request a page when the response it processed last was empty (runs over *)
(* valid months).                                                          *)
C19_StopsOnEmptyPage ==
    (StrptimeOk(month_arg) /\ pc \in {"primary_loop", "fallback_loop"} /\ page_index > 0) =>
        data.data # << >>

(* C20: the fallback scan resolves a node as the primary fetch does: a     *)
(* node the primary loop resolves to a record is resolved by the fallback  *)
(* loop, given the same included list, to the same record: same id, same   *)
(* entity name, same amount, same timestamp.                               *)
C20_SameResolver ==
    (call.fn = "resolve" /\ ret.primary.r = "item" /\ ret.fallback # NotRun) =>
        ret.fallback = ret.primary

\* the four amount spellings of a node, in the order they are consulted
Spelled(attrs) ==
    << Get(attrs.total_awarded_amount), Get(attrs.total_awarded_amount_in_usd),
       Get(attrs.awarded_amount), Get(attrs.bounty_amount) >>

\* a value that is there: a number, zero included, or a string that is not empty
NonEmpty(v) == v.k \in {"num", "numstr"} \/ (v.k = "str" /\ v.s # "")

\* the amount of the award resource a node points at, 0 without one
AwardAmount(rel, included) ==
    IF rel.k = "pointer" /\ IndexHits(included, rel.id) # {}
    THEN LET inc == Indexed(included, rel.id)
         IN  IF Truthy(inc.amount_in_usd) THEN inc.amount_in_usd.n
             ELSE IF Truthy(inc.amount) THEN inc.amount.n
             ELSE 0
    ELSE 0

\* the amount the resolution order gives, a spelling counting when Counts holds of it
AmountInOrder(node, included, Counts(_)) ==
    LET sp == Spelled(node.attributes)
    IN  IF \E i \in 1..4 : Counts(sp[i])
        THEN sp[CHOOSE i \in 1..4 : Counts(sp[i]) /\ \A j \in 1..(i - 1) : ~Counts(sp[j])].n
        ELSE AwardAmount(node.relationships.award, included)

(* C21, as stated: the amount of a record of the primary fetch is the      *)
(* first non-empty value among total_awarded_amount,                       *)
(* total_awarded_amount_in_usd, awarded_amount and bounty_amount of the    *)
(* node; only if none is present the amount of the award resource the node *)
(* points at; otherwise zero.  A node carrying an inline value, zero       *)
(* included, takes its amount from no later spelling and not from the      *)
(* award.                                                                  *)
C21_FirstPresentAmount ==
    (call.fn = "resolve" /\ ret.primary.r = "item") =>
        ret.primary.item.total_awarded_amount =
            AmountInOrder(call.node, call.included, NonEmpty)

(* C21, amended: the same order, a spelling counting only when its value   *)
(* is truthy: null, zero and the empty string are passed over like a       *)
(* missing attribute, so a node whose inline value is zero takes its       *)
(* amount from a later spelling or from the award; a node with a non-zero  *)
(* inline value never does.                                                *)
C21_FirstTruthyAmount ==
    (call.fn = "resolve" /\ ret.primary.r = "item") =>
        ret.primary.item.total_awarded_amount =
            AmountInOrder(call.node, call.included, Truthy)

\* C21, witness: a node without inline amount took the amount of its award,
\* and the node had a later spelling passed over for an earlier one
C21_AmountFromAward ==
    /\ call.fn = "resolve"
    /\ ret.primary.r = "item"
    /\ \A i \in 1..4 : ~Truthy(Spelled(call.node.attributes)[i])
    /\ ret.primary.item.total_awarded_amount = 75

(* C22: a page loop is bounded by max_pages whatever the remote returns:   *)
(* the primary fetch and the fallback fetch of a month each fetch at most  *)
(* max_pages pages, also when every response carries a next cursor, and    *)
(* leave their loop when the bound is reached; with max_pages = 0 no       *)
(* request is issued and the run ends normally with an empty result.       *)
C22_BoundedByMaxPages ==
    prog \in {"api_client", "aggregate_last6"} =>
        /\ \A kind \in {"filtered", "unfiltered"} :
               Len(PageFetches(kind, month)) <= max_pages
        /\ page_index <= max_pages
        /\ pc \in {"primary_loop", "fallback_loop"} => page_index < max_pages
        /\ max_pages = 0 =>
               /\ requests = << >>
               /\ items = << >>
               /\ outcome \in {"running", "ok", MonthError}
               /\ pc = "done" => (outcome = "ok" /\ agg = << >>)

\* C22, witness: both fetches of a month ran into the bound while the remote
\* kept sending a next cursor, and the fallback returned
C22_BoundReached ==
    /\ pc = "collect"
    /\ primary_n = 0
    /\ max_pages >= 2
    /\ page_index = max_pages
    /\ data.next.k # "none"
    /\ Len(PageFetches("filtered", month)) = max_pages
    /\ Len(PageFetches("unfiltered", month)) = max_pages

\* token b spells the calendar month right after token a
NextMonthOf(a, b) ==
    /\ ValidYearMonth(a)
    /\ ValidYearMonth(b)
    /\ IF MonthOf(a) = 12
       THEN YearOf(b) = YearOf(a) + 1 /\ MonthOf(b) = 1
       ELSE YearOf(b) = YearOf(a) /\ MonthOf(b) = MonthOf(a) + 1

\* position of month m in the list of the run
PosOf(m) == CHOOSE i \in 1..Len(months_list) : months_list[i] = m

(* C23: in the multi-month run over a valid end month and n >= 1 months,   *)
(* month_iter returns n tokens, each the calendar month right after the    *)
(* one before it (over the year boundary too), the last one the end month; *)
(* the run fetches the months in that order, one after the other, and has  *)
(* fetched every one of them when it ends.                                 *)
C23_MonthsAscending ==
    (prog = "aggregate_last6" /\ pc # "main") =>
        /\ Len(months_list) = n_months
        /\ months_list[n_months] = month_arg
        /\ \A i \in 1..(n_months - 1) : NextMonthOf(months_list[i], months_list[i + 1])
        /\ month = months_list[month_idx]
        /\ \A i \in 1..Len(requests) :
               /\ \E k \in 1..month_idx : months_list[k] = requests[i].month
               /\ \A j \in 1..Len(requests) :
                      i < j => PosOf(requests[i].month) <= PosOf(requests[j].month)
        /\ pc = "done" =>
               \A k \in 1..n_months : \E i \in 1..Len(requests) :
                   requests[i].month = months_list[k]

\* C23, witness: a run over a window that starts in the year before the end
\* month's has fetched all its months
C23_WindowOverYearEnd ==
    /\ prog = "aggregate_last6"
    /\ pc = "done"
    /\ n_months >= 2
    /\ YearOf(months_list[1]) < YearOf(month_arg)
    /\ Len(requests) >= n_months

=============================================================================
